---- MODULE Spec2Model ----
(***************************************************************************)
(* NECOS Network Manager (network_manager.py): slice lifecycle on a        *)
(* programmable switch (Pronto, OpenFlow 1.0 flow table) and a legacy      *)
(* switch (Brocade, control VLAN 444 driven over an SSH shell).            *)
(*                                                                         *)
(* A request is one pass of NetworkManagerController.create_slice or       *)
(* delete_slice through NetworkManager.create_network_slice or             *)
(* delete_network_slice.  Every external call (SSH connect, command block, *)
(* SSH close, flow-mod) is one step of the model.                          *)
(***************************************************************************)
EXTENDS Integers, Sequences, FiniteSets, TLC

\* ------------------------------------------------------------------------
\* Bounds and inputs
\* ------------------------------------------------------------------------

\* longest member list a request carries
MaxMembers == 2

\* slice identifiers the requests use
SliceIds == {"s1", "s2"}

\* member names the requests use: two hosts with a control mapping, one
\* without, and one name that is not in resource_dictionary
Hosts == {"icarus1", "icarus5", "entry1", "ghost"}

\* request handlers (greenlets) of the WSGI front end
Procs == {1, 2}

\* the lists of at most n distinct elements of S
RECURSIVE ListsUpTo(_, _)
ListsUpTo(S, n) ==
    IF n = 0 THEN {<<>>}
    ELSE LET shorter == ListsUpTo(S, n - 1)
         IN  shorter \cup {Append(s, x) : s \in {t \in shorter : Len(t) = n - 1}, x \in S}

NoRepeat(s) == \A i, j \in 1..Len(s) : s[i] = s[j] => i = j

\* the "ports" lists of the request bodies: members are a set, so no name
\* is listed twice
MemberLists == {m \in ListsUpTo(Hosts, MaxMembers) : NoRepeat(m)}

\* ------------------------------------------------------------------------
\* Strings of decimal digits, int() and str()
\* ------------------------------------------------------------------------

RECURSIVE int(_)
int(s) == IF s = <<>> THEN 0
          ELSE 10 * int(SubSeq(s, 1, Len(s) - 1)) + s[Len(s)]

RECURSIVE str(_)
str(n) == IF n < 10 THEN <<n>> ELSE str(n \div 10) \o <<n % 10>>

\* ------------------------------------------------------------------------
\* Static dictionaries
\* ------------------------------------------------------------------------

resource_dictionary ==
    [h \in {"icarus1", "icarus5", "icarus8", "icarus9", "entry1", "entry2"} |->
        CASE h = "icarus1" -> <<1>>
          [] h = "icarus5" -> <<3>>
          [] h = "icarus8" -> <<5>>
          [] h = "icarus9" -> <<7>>
          [] h = "entry1"  -> <<9>>
          [] h = "entry2"  -> <<1, 3>>]

control_resource_dictionary ==
    (<<1>> :> <<7>>) @@ (<<3>> :> <<3>>) @@ (<<5>> :> <<9>>) @@ (<<7>> :> <<5>>)

\* the control VLAN of the command blocks ("vlan 444")
ControlVlan == 444

\* host_to_port: KeyError when the name is not a key
Known(host_name) == host_name \in DOMAIN resource_dictionary

host_to_port(host_name) == int(resource_dictionary[host_name])

\* the guard "str(in_port) in control_resource_dictionary"
HasControlPort(in_port) == str(in_port) \in DOMAIN control_resource_dictionary

ProntoPortAsBrocade(port_to_translate) == port_to_translate

port_translate_to_brocade(port_to_translate) ==
    int(control_resource_dictionary[str(port_to_translate)])

\* Brocade ports that some Pronto port maps to
BrocadePorts == {int(control_resource_dictionary[k]) : k \in DOMAIN control_resource_dictionary}

\* ------------------------------------------------------------------------
\* State
\* ------------------------------------------------------------------------

VARIABLES
    slices,     \* the slices dictionary: slice id -> stored value
    flows,      \* flow table of the Pronto switch: in_port -> installed rule
    vlan444,    \* Brocade ports that are untagged members of VLAN 444
    dp,         \* TRUE once switch_features_handler has set self.dp / self.parser_global
    brocade,    \* the global SSH client handle: the request that created it, or NoClient
    sessions,   \* requests whose SSH client is connected
    req,        \* per request handler: position and locals of the running call
    okSoFar,    \* history: no call has failed so far
    lastOp,     \* history: per slice id, the operation of the last call on it
    portHist,   \* history: per control-mapped port, the last call that touched it
    prevDel,    \* history: <<id, members>> of the call just returned if it was a clean delete
    prevFail,   \* history: <<id, members, k>> of the call just returned if it was a create
                \* that a failed connect() ended at its k-th port
    claimed     \* history: per slice id, the member ports of the create that registered it

vars == <<slices, flows, vlan444, dp, brocade, sessions, req,
          okSoFar, lastOp, portHist, prevDel, prevFail, claimed>>

\* the value Python's None
None == [kind |-> "None"]

\* a member list as a stored value
ListValue(slice_members) == [kind |-> "list", items |-> slice_members]

NoClient == 0

NoSnapshot == [kind |-> "none"]

Snapshot == [kind |-> "state", slices |-> slices, flows |-> flows, vlan444 |-> vlan444]

\* Pronto ports with an entry in control_resource_dictionary
ControlMapped == {int(k) : k \in DOMAIN control_resource_dictionary}

\* a request handler with no call running.  Fields of a running call:
\*   pc       "port" (loop head), "send", "settle", "flow", "done"
\*   op       "create" or "delete"; slice_id, slice_members: its arguments
\*   slice_port_members, k: the resolved ports and the loop position
\*   err      the exception that ended the call, or "none"
\*   log      history: the external calls made so far, in order
\*   existed  history: the id was registered when the call began
\*   pre      history: the state a repeated delete began in
\*   retry    history: k when the call is a delete right after a create of the
\*            same id and members that a failed connect() ended at port k, else 0
IdleReq ==
    [pc |-> "idle", op |-> "none", slice_id |-> "", slice_members |-> <<>>,
     slice_port_members |-> <<>>, k |-> 0, err |-> "none", log |-> <<>>,
     existed |-> FALSE, pre |-> NoSnapshot, retry |-> 0]

\* ------------------------------------------------------------------------
\* Dictionary and list helpers
\* ------------------------------------------------------------------------

\* d[key] = value
DictPut(d, key, value) ==
    [x \in DOMAIN d \cup {key} |-> IF x = key THEN value ELSE d[x]]

\* del d[key]
DictDel(d, key) == [x \in DOMAIN d \ {key} |-> d[x]]

\* [self.host_to_port(port) for port in slice_members]: the ports of the
\* names in order, or a KeyError at the first name that is no key
RECURSIVE ResolveSkipUnknown(_)
ResolveSkipUnknown(slice_members) ==
    IF slice_members = <<>> THEN [err |-> "none", ports |-> <<>>]
    ELSE LET rest == ResolveSkipUnknown(Tail(slice_members))
         IN  IF Known(Head(slice_members))
             THEN [err |-> "none", ports |-> <<host_to_port(Head(slice_members))>> \o rest.ports]
             ELSE rest

RECURSIVE ResolveAll(_)
ResolveAll(slice_members) ==
    IF slice_members = <<>> THEN [err |-> "none", ports |-> <<>>]
    ELSE IF ~Known(Head(slice_members)) THEN [err |-> "KeyError", ports |-> <<>>]
    ELSE LET rest == ResolveAll(Tail(slice_members))
         IN  IF rest.err # "none" THEN rest
             ELSE [err |-> "none", ports |-> <<host_to_port(Head(slice_members))>> \o rest.ports]

Resolve(slice_members) == ResolveAll(slice_members)

\* lines 63-65: warn when the id exists, then slices[slice_id] = None
RegisterStoresMembers(reg, slice_id, slice_members) ==
    DictPut(reg, slice_id, ListValue(slice_members))

RegisterSkipped(reg, slice_id, slice_members) == reg

\* lines 63-64: an id that is already registered is logged as a warning and
\* raises nothing
ConflictRaises(reg, slice_id) ==
    IF slice_id \in DOMAIN reg THEN "SliceConflict" ELSE "none"

ConflictCheck(reg, slice_id) == "none"

RegisterSlice(reg, slice_id, slice_members) == DictPut(reg, slice_id, None)

\* lines 94-97: del slices[slice_id] when it exists, else a warning
UnregisterNothing(reg, slice_id) == [err |-> "none", reg |-> reg]

UnregisterStrict(reg, slice_id) ==
    IF slice_id \in DOMAIN reg THEN [err |-> "none", reg |-> DictDel(reg, slice_id)]
    ELSE [err |-> "KeyError", reg |-> reg]

UnregisterSlice(reg, slice_id) ==
    IF slice_id \in DOMAIN reg THEN [err |-> "none", reg |-> DictDel(reg, slice_id)]
    ELSE [err |-> "none", reg |-> reg]

\* lines 70, 79-81: an output action to every member port but in_port
ActionsToAll(slice_port_members, in_port) == slice_port_members

MeshActions(slice_port_members, in_port) ==
    SelectSeq(slice_port_members, LAMBDA item : item # in_port)

\* ------------------------------------------------------------------------
\* Messages to the two switches
\* ------------------------------------------------------------------------

\* add_flow: the OFPFlowMod it builds (command defaults to OFPFC_ADD)
FlowModAdd(priority, match, actions) ==
    [command |-> "OFPFC_ADD", match |-> match, idle_timeout |-> 0, hard_timeout |-> 0,
     priority |-> priority, actions |-> actions]

\* rem_flow: the OFPFlowMod it builds
FlowModDeleteAsAdd(match) ==
    [command |-> "OFPFC_ADD", match |-> match, idle_timeout |-> 0, hard_timeout |-> 0,
     priority |-> 1, actions |-> <<>>]

FlowModDelete(match) == [command |-> "OFPFC_DELETE", match |-> match]

\* datapath.send_msg(mod): the flow table after the switch applied mod
ApplyFlowMod(table, mod) ==
    IF mod.command = "OFPFC_ADD"
    THEN DictPut(table, mod.match,
                 [priority |-> mod.priority, actions |-> mod.actions,
                  idle_timeout |-> mod.idle_timeout, hard_timeout |-> mod.hard_timeout])
    ELSE DictDel(table, mod.match)

\* rem_port_from_control / add_port_to_control: the command block
CommandAddNegated(port_to_add) ==
    [vlan |-> ControlVlan, line |-> "no untagged ethernet", port |-> port_to_add]

CommandRemove(port_to_remove) ==
    [vlan |-> ControlVlan, line |-> "no untagged ethernet", port |-> port_to_remove]

CommandAdd(port_to_add) ==
    [vlan |-> ControlVlan, line |-> "untagged ethernet", port |-> port_to_add]

\* the Brocade shell executing a command block
ApplyCommand(members, command) ==
    IF command.line = "untagged ethernet" THEN members \cup {command.port}
    ELSE members \ {command.port}

\* ------------------------------------------------------------------------
\* Initial state: nothing registered, empty flow table, every mapped
\* Brocade port on the control VLAN, no switch connected yet
\* ------------------------------------------------------------------------

Init ==
    /\ slices = <<>>
    /\ flows = <<>>
    /\ vlan444 = BrocadePorts
    /\ dp = FALSE
    /\ brocade = NoClient
    /\ sessions = {}
    /\ req = [r \in Procs |-> IdleReq]
    /\ okSoFar = TRUE
    /\ lastOp = [s \in SliceIds |-> "none"]
    /\ portHist = [p \in ControlMapped |-> "other"]
    /\ prevDel = <<>>
    /\ prevFail = <<>>
    /\ claimed = [s \in SliceIds |-> {}]

\* ------------------------------------------------------------------------
\* Locals of a running call
\* ------------------------------------------------------------------------

\* the loop variable "port" / in_port of the current iteration
InPortReversed(r) ==
    req[r].slice_port_members[Len(req[r].slice_port_members) + 1 - req[r].k]

InPort(r) == req[r].slice_port_members[req[r].k]

Logged(r, call) == Append(req[r].log, call)

\* position after the body of the loop ran for the current port
NextPort(r) ==
    IF req[r].k < Len(req[r].slice_port_members)
    THEN [pc |-> "port", k |-> req[r].k + 1]
    ELSE [pc |-> "done", k |-> req[r].k]

\* the member ports of a list that have a control mapping
TouchedPorts(ports) == {ports[i] : i \in 1..Len(ports)} \cap ControlMapped

\* ------------------------------------------------------------------------
\* Actions
\* ------------------------------------------------------------------------

\* switch_features_handler: the Pronto switch connected
SwitchFeatures ==
    /\ ~dp
    /\ dp' = TRUE
    /\ UNCHANGED <<slices, flows, vlan444, brocade, sessions, req,
                   okSoFar, lastOp, portHist, prevDel, prevFail, claimed>>

\* the state of a call after lines 62-67 / 93-99 ran with registry error e
Entered(op, slice_id, slice_members, e) ==
    LET res == Resolve(slice_members)
        err == IF e # "none" THEN e ELSE res.err
        ports == IF err = "none" THEN res.ports ELSE <<>>
    IN  [pc |-> IF err = "none" /\ ports # <<>> THEN "port" ELSE "done",
         op |-> op, slice_id |-> slice_id, slice_members |-> slice_members,
         slice_port_members |-> ports, k |-> IF ports # <<>> THEN 1 ELSE 0,
         err |-> err, log |-> <<>>,
         existed |-> slice_id \in DOMAIN slices,
         pre |-> IF op = "delete" /\ prevDel = <<slice_id, slice_members>>
                 THEN Snapshot ELSE NoSnapshot,
         retry |-> IF op = "delete" /\ prevFail # <<>>
                      /\ prevFail[1] = slice_id /\ prevFail[2] = slice_members
                   THEN prevFail[3] ELSE 0]

Touch(entered) ==
    [p \in ControlMapped |->
        IF p \in TouchedPorts(entered.slice_port_members) THEN "other" ELSE portHist[p]]

\* POST create_slice -> create_network_slice, lines 62-67
CreateSlice(r, slice_id, slice_members) ==
    /\ req[r].pc = "idle"
    /\ LET entered == Entered("create", slice_id, slice_members,
                              ConflictCheck(slices, slice_id))
       IN  /\ slices' = RegisterSlice(slices, slice_id, slice_members)
           /\ req' = [req EXCEPT ![r] = entered]
           /\ portHist' = Touch(entered)
    /\ UNCHANGED <<flows, vlan444, dp, brocade, sessions, okSoFar, lastOp, prevDel,
                   prevFail, claimed>>

\* DELETE delete_slice -> delete_network_slice, lines 93-99
DeleteSlice(r, slice_id, slice_members) ==
    /\ req[r].pc = "idle"
    /\ LET un == UnregisterSlice(slices, slice_id)
           entered == Entered("delete", slice_id, slice_members, un.err)
       IN  /\ slices' = un.reg
           /\ req' = [req EXCEPT ![r] = entered]
           /\ portHist' = Touch(entered)
    /\ UNCHANGED <<flows, vlan444, dp, brocade, sessions, okSoFar, lastOp, prevDel,
                   prevFail, claimed>>

\* brocade.connect raised: nothing catches it, the call ends with the error
ConnectFailureSwallowed(call) ==
    [call EXCEPT !.pc = "flow", !.log = Append(call.log, [call |-> "open", ok |-> FALSE])]

ConnectFailed(call) ==
    [call EXCEPT !.pc = "done", !.err = "SSHException",
                 !.log = Append(call.log, [call |-> "open", ok |-> FALSE])]

\* open_ssh_connection, for a port with a control mapping: a new client
\* replaces the global handle, then connect() succeeds or raises
OpenSsh(r) ==
    /\ req[r].pc = "port"
    /\ HasControlPort(InPort(r))
    /\ brocade' = r
    /\ \E connected \in BOOLEAN :
         IF connected
         THEN /\ sessions' = sessions \cup {r}
              /\ req' = [req EXCEPT ![r].pc = "send",
                                    ![r].log = Logged(r, [call |-> "open", ok |-> TRUE])]
         ELSE /\ sessions' = sessions
              /\ req' = [req EXCEPT ![r] = ConnectFailed(req[r])]
    /\ UNCHANGED <<slices, flows, vlan444, dp, okSoFar, lastOp, portHist, prevDel, prevFail, claimed>>

\* the command block of the current port: remove on create, add on delete
Command(r) ==
    IF req[r].op = "create"
    THEN CommandRemove(port_translate_to_brocade(InPort(r)))
    ELSE CommandAdd(port_translate_to_brocade(InPort(r)))

\* send_cmd_to_brocade: the block goes to the shell of the global client;
\* the call then sleeps for the settle delay
SendCmd(r) ==
    /\ req[r].pc = "send"
    /\ vlan444' = IF brocade \in sessions THEN ApplyCommand(vlan444, Command(r)) ELSE vlan444
    /\ req' = [req EXCEPT ![r].pc = "settle",
                          ![r].log = Logged(r, [call |-> "send", cmd |-> Command(r)])]
    /\ UNCHANGED <<slices, flows, dp, brocade, sessions, okSoFar, lastOp, portHist, prevDel,
                   prevFail, claimed>>

\* close_ssh_connection: closes the client the global handle refers to
CloseSsh(r) ==
    /\ req[r].pc = "settle"
    /\ sessions' = sessions \ {brocade}
    /\ req' = [req EXCEPT ![r].pc = "flow",
                          ![r].log = Logged(r, [call |-> "close"])]
    /\ UNCHANGED <<slices, flows, vlan444, dp, brocade, okSoFar, lastOp, portHist, prevDel,
                   prevFail, claimed>>

\* the call reached the flow-mod of the current port
AtFlowBeforeClose(r) ==
    \/ req[r].pc \in {"settle", "flow"}
    \/ req[r].pc = "port" /\ ~HasControlPort(InPort(r))

AtFlow(r) ==
    \/ req[r].pc = "flow"
    \/ req[r].pc = "port" /\ ~HasControlPort(InPort(r))

\* the flow-mod of the current port
FlowMod(r) ==
    IF req[r].op = "create"
    THEN FlowModAdd(1, InPort(r), MeshActions(req[r].slice_port_members, InPort(r)))
    ELSE FlowModDelete(InPort(r))

\* lines 78-84 (add_flow) and 109-110 (rem_flow): AttributeError while no
\* switch has connected, else the flow-mod is sent
SendFlowMod(r) ==
    /\ AtFlow(r)
    /\ IF dp
       THEN /\ flows' = ApplyFlowMod(flows, FlowMod(r))
            /\ req' = [req EXCEPT ![r].pc = NextPort(r).pc, ![r].k = NextPort(r).k,
                                  ![r].log = Logged(r, [call |-> "flow_mod", mod |-> FlowMod(r)])]
       ELSE /\ flows' = flows
            /\ req' = [req EXCEPT ![r].pc = "done", ![r].err = "AttributeError"]
    /\ UNCHANGED <<slices, vlan444, dp, brocade, sessions, okSoFar, lastOp, portHist, prevDel,
                   prevFail, claimed>>

AddFlow(r) == req[r].op = "create" /\ SendFlowMod(r)

RemFlow(r) == req[r].op = "delete" /\ SendFlowMod(r)

\* the call returns (Response 200) or its exception reaches the front end;
\* track names the histories that are kept: "calls" (okSoFar, lastOp),
\* "ports" (portHist), "repeat" (prevDel), "retry" (prevFail), "claimed"
Returned(r, track) ==
    /\ req[r].pc = "done"
    /\ LET ok == req[r].err = "none"
       IN  /\ okSoFar' = (okSoFar /\ (ok \/ "calls" \notin track))
           /\ lastOp' = IF "calls" \in track /\ okSoFar /\ ok
                        THEN [lastOp EXCEPT ![req[r].slice_id] = req[r].op]
                        ELSE [s \in SliceIds |-> "none"]
           /\ portHist' = [p \in ControlMapped |->
                             IF p \in TouchedPorts(req[r].slice_port_members)
                             THEN (IF ok /\ "ports" \in track THEN req[r].op ELSE "other")
                             ELSE portHist[p]]
           /\ prevDel' = IF "repeat" \in track /\ ok /\ req[r].op = "delete"
                         THEN <<req[r].slice_id, req[r].slice_members>> ELSE <<>>
           /\ prevFail' = IF "retry" \in track /\ req[r].op = "create"
                             /\ req[r].err = "SSHException"
                          THEN <<req[r].slice_id, req[r].slice_members, req[r].k>> ELSE <<>>
           /\ claimed' = IF "claimed" \in track /\ okSoFar /\ ok
                         THEN [claimed EXCEPT ![req[r].slice_id] =
                                  IF req[r].op = "create"
                                  THEN {req[r].slice_port_members[i] :
                                           i \in 1..Len(req[r].slice_port_members)}
                                  ELSE {}]
                         ELSE [s \in SliceIds |-> {}]
    /\ req' = [req EXCEPT ![r] = IdleReq]
    /\ UNCHANGED <<slices, flows, vlan444, dp, brocade, sessions>>

Respond(r) == Returned(r, {"calls", "ports", "repeat"})

\* one step of request handler r before it returns
Work(r) ==
    \/ OpenSsh(r)
    \/ SendCmd(r)
    \/ CloseSsh(r)
    \/ AddFlow(r)
    \/ RemFlow(r)

\* one step of request handler r
Step(r) ==
    \/ Work(r)
    \/ Respond(r)

\* ------------------------------------------------------------------------
\* One request at a time: a request runs to completion before the next is
\* accepted
\* ------------------------------------------------------------------------

Sequential == {1}

Next ==
    \/ SwitchFeatures
    \/ \E r \in Sequential, s \in SliceIds, m \in MemberLists : CreateSlice(r, s, m)
    \/ \E r \in Sequential, s \in SliceIds, m \in MemberLists : DeleteSlice(r, s, m)
    \/ \E r \in Sequential : Step(r)

Spec == Init /\ [][Next]_vars

\* the member lists whose names all resolve
KnownLists == {m \in MemberLists : \A i \in 1..Len(m) : Known(m[i])}

\* the same program with the history prevFail kept, for requests whose names
\* all resolve
RespondRetry(r) == Returned(r, {"calls", "ports", "repeat", "retry"})

NextRetry ==
    \/ SwitchFeatures
    \/ \E r \in Sequential, s \in SliceIds, m \in KnownLists : CreateSlice(r, s, m)
    \/ \E r \in Sequential, s \in SliceIds, m \in KnownLists : DeleteSlice(r, s, m)
    \/ \E r \in Sequential : Work(r) \/ RespondRetry(r)

SpecRetry == Init /\ [][NextRetry]_vars

\* the same program with the history claimed kept, for requests whose names
\* all resolve
RespondClaimed(r) == Returned(r, {"calls", "ports", "repeat", "claimed"})

NextClaimed ==
    \/ SwitchFeatures
    \/ \E r \in Sequential, s \in SliceIds, m \in KnownLists : CreateSlice(r, s, m)
    \/ \E r \in Sequential, s \in SliceIds, m \in KnownLists : DeleteSlice(r, s, m)
    \/ \E r \in Sequential : Work(r) \/ RespondClaimed(r)

SpecClaimed == Init /\ [][NextClaimed]_vars

\* ------------------------------------------------------------------------
\* Two requests in flight: the handlers are greenlets of one hub, a handler
\* runs until it sleeps for the settle delay (time.sleep in
\* send_cmd_to_brocade) or returns, and only then another handler is
\* resumed or a new request accepted.  Either sleeper may be resumed next.
\* ------------------------------------------------------------------------

\* the member lists of the concurrent requests: at most one name each
ConcLists == {m \in KnownLists : Len(m) <= 1}

\* the return of a call, no history kept
RespondConc(r) == Returned(r, {})

\* no other handler is in the middle of a run
CanRun(r) == \A q \in Procs \ {r} : req[q].pc \in {"idle", "settle"}

NextConc ==
    \/ SwitchFeatures
    \/ \E r \in Procs, s \in SliceIds, m \in ConcLists :
          CanRun(r) /\ CreateSlice(r, s, m)
    \/ \E r \in Procs, s \in SliceIds, m \in ConcLists :
          CanRun(r) /\ DeleteSlice(r, s, m)
    \/ \E r \in Procs : CanRun(r) /\ (Work(r) \/ RespondConc(r))

SpecConc == Init /\ [][NextConc]_vars

\* ------------------------------------------------------------------------
\* Vocabulary of the properties
\* ------------------------------------------------------------------------

Quiescent == \A r \in Procs : req[r].pc = "idle"

AllKnown(slice_members) ==
    \A i \in 1..Len(slice_members) : slice_members[i] \in DOMAIN resource_dictionary

Elems(s) == {s[i] : i \in 1..Len(s)}

\* the rule submissions and removals of a call, in order
FlowMods(r) == SelectSeq(req[r].log, LAMBDA c : c.call = "flow_mod")

\* the command blocks of a call, in order
Sends(r) == SelectSeq(req[r].log, LAMBDA c : c.call = "send")

\* the commands and flow-mods of a call, in order (session open/close left out)
Calls(r) == SelectSeq(req[r].log, LAMBDA c : c.call \in {"send", "flow_mod"})

\* the last external call of r was a connect() that raised
OpenFailed(r) ==
    /\ req[r].log # <<>>
    /\ req[r].log[Len(req[r].log)] = [call |-> "open", ok |-> FALSE]

\* the exceptions a backend raises: connect() on the Brocade, and the use of
\* self.parser_global while no Pronto switch has connected
BackendErrors == {"SSHException", "AttributeError"}

\* the call ended with an error that no backend raised
FailedByItself(r) == req[r].err \notin BackendErrors \cup {"none"}

Rule(actions) == [priority |-> 1, actions |-> actions, idle_timeout |-> 0, hard_timeout |-> 0]

\* ------------------------------------------------------------------------
\* C1: no port with a control-port mapping is, in any state between two
\* external calls, both the match port of an installed forwarding rule and
\* on the control VLAN.  (Fails: delete_network_slice puts the port back on
\* VLAN 444 before it removes the rule.)
\* ------------------------------------------------------------------------
C1_NeverForwardingOnControl ==
    \A p \in ControlMapped :
        ~(/\ p \in DOMAIN flows
          /\ flows[p].actions # <<>>
          /\ port_translate_to_brocade(p) \in vlan444)

\* ------------------------------------------------------------------------
\* C2: a create that returns without error has submitted one rule per
\* member port, in order, the rule of port p forwarding to exactly the other
\* member ports, with priority 1 and no expiration.
\* ------------------------------------------------------------------------
C2_FullMesh ==
    \A r \in Procs :
        (req[r].pc = "done" /\ req[r].op = "create" /\ req[r].err = "none") =>
            LET P == [i \in 1..Len(req[r].slice_members) |->
                         host_to_port(req[r].slice_members[i])]
                mods == FlowMods(r)
            IN  /\ Len(mods) = Len(P)
                /\ \A i \in 1..Len(P) :
                     /\ mods[i].mod.command = "OFPFC_ADD"
                     /\ mods[i].mod.match = P[i]
                     /\ Elems(mods[i].mod.actions) = Elems(P) \ {P[i]}
                     /\ Len(mods[i].mod.actions) = Len(P) - 1
                     /\ mods[i].mod.priority = 1
                     /\ mods[i].mod.idle_timeout = 0
                     /\ mods[i].mod.hard_timeout = 0

C2_Witness ==
    \E r \in Procs :
        /\ req[r].pc = "done" /\ req[r].op = "create" /\ req[r].err = "none"
        /\ req[r].slice_members = <<"icarus5", "entry1">>
        /\ Len(FlowMods(r)) = 2

\* ------------------------------------------------------------------------
\* C3: a control-mapped port whose last touching call was a create that
\* returned without error is off the control VLAN, also while calls on other
\* ports run; one whose last touching call was a delete that returned
\* without error is on the control VLAN.
\* ------------------------------------------------------------------------
C3_ExcludedWhileActive ==
    \A p \in ControlMapped :
        /\ portHist[p] = "create" => port_translate_to_brocade(p) \notin vlan444
        /\ portHist[p] = "delete" => port_translate_to_brocade(p) \in vlan444

C3_Witness ==
    /\ portHist[1] = "delete"
    /\ portHist[3] = "create"
    /\ \E r \in Procs : req[r].pc = "done" /\ req[r].slice_members = <<"entry1">>

\* ------------------------------------------------------------------------
\* C4: a call whose member list holds a name that is not in the port
\* registry ends with the lookup error and has made no external call: no
\* session attempt, no command, no flow-mod.
\* ------------------------------------------------------------------------
C4_UnknownResourceNoCalls ==
    \A r \in Procs :
        (req[r].pc # "idle" /\ ~AllKnown(req[r].slice_members)) =>
            /\ req[r].pc = "done"
            /\ req[r].err = "KeyError"
            /\ req[r].log = <<>>
            /\ r \notin sessions

C4_Witness ==
    \E r \in Procs :
        /\ req[r].pc = "done" /\ req[r].op = "create"
        /\ req[r].slice_members = <<"icarus1", "ghost">>
        /\ req[r].err = "KeyError"
        /\ dp

\* ------------------------------------------------------------------------
\* C5: a delete of an id that was not registered, with names that all
\* resolve, never fails by itself (only when a backend call fails), leaves
\* the id out of the registry and, when it returns, has issued for every
\* member port in order the restore command (if the port is control-mapped)
\* and then the removal of the rule matching the port.
\* ------------------------------------------------------------------------
RECURSIVE DeleteCalls(_)
DeleteCalls(ports) ==
    IF ports = <<>> THEN <<>>
    ELSE LET p == Head(ports)
             restore == IF str(p) \in DOMAIN control_resource_dictionary
                        THEN <<[call |-> "send",
                                cmd |-> [vlan |-> 444, line |-> "untagged ethernet",
                                         port |-> int(control_resource_dictionary[str(p)])]]>>
                        ELSE <<>>
         IN  restore
             \o <<[call |-> "flow_mod", mod |-> [command |-> "OFPFC_DELETE", match |-> p]]>>
             \o DeleteCalls(Tail(ports))

C5_DeleteTolerant ==
    \A r \in Procs :
        (req[r].op = "delete" /\ ~req[r].existed /\ AllKnown(req[r].slice_members)) =>
            /\ req[r].slice_id \notin DOMAIN slices
            /\ ~FailedByItself(r)
            /\ (req[r].pc = "done" /\ req[r].err = "none") =>
                  Calls(r) = DeleteCalls([i \in 1..Len(req[r].slice_members) |->
                                             host_to_port(req[r].slice_members[i])])

C5_Witness ==
    \E r \in Procs :
        /\ req[r].op = "delete" /\ ~req[r].existed
        /\ req[r].pc = "done" /\ req[r].err = "none"
        /\ req[r].slice_members = <<"icarus1", "entry1">>
        /\ Len(Calls(r)) = 3

\* ------------------------------------------------------------------------
\* C6: a delete that runs right after a delete of the same id and members
\* that returned without error never fails by itself and, when it returns
\* without error, leaves registry, flow table and control VLAN as the first
\* delete left them.
\* ------------------------------------------------------------------------
C6_DeleteIdempotent ==
    \A r \in Procs :
        (req[r].op = "delete" /\ req[r].pre # NoSnapshot) =>
            /\ ~FailedByItself(r)
            /\ req[r].err # "AttributeError"
            /\ (req[r].pc = "done" /\ req[r].err = "none") =>
                  /\ slices = req[r].pre.slices
                  /\ flows = req[r].pre.flows
                  /\ vlan444 = req[r].pre.vlan444

C6_Witness ==
    \E r \in Procs :
        /\ req[r].op = "delete" /\ req[r].pre # NoSnapshot
        /\ req[r].pc = "done" /\ req[r].err = "none"
        /\ req[r].slice_members = <<"icarus1", "icarus5">>
        /\ \E s \in SliceIds : s \in DOMAIN slices
        /\ 9 \in DOMAIN flows

\* ------------------------------------------------------------------------
\* C7: for members [icarus1, icarus5] the ports are [1, 3]; a create that
\* returns without error has issued exactly: remove Brocade port 7, rule
\* {match 1, actions [3]}, remove Brocade port 3, rule {match 3, actions
\* [1]}; a delete that returns without error has issued exactly: add 7,
\* remove rules matching 1, add 3, remove rules matching 3, and then both
\* Brocade ports are on the control VLAN and no rule matches port 1 or 3.
\* ------------------------------------------------------------------------
C7_Scenario ==
    \A r \in Procs :
        (req[r].pc = "done" /\ req[r].err = "none"
            /\ req[r].slice_members = <<"icarus1", "icarus5">>) =>
            /\ req[r].slice_port_members = <<1, 3>>
            /\ req[r].op = "create" =>
                 Calls(r) =
                   << [call |-> "send",
                       cmd |-> [vlan |-> 444, line |-> "no untagged ethernet", port |-> 7]],
                      [call |-> "flow_mod",
                       mod |-> [command |-> "OFPFC_ADD", match |-> 1, idle_timeout |-> 0,
                                hard_timeout |-> 0, priority |-> 1, actions |-> <<3>>]],
                      [call |-> "send",
                       cmd |-> [vlan |-> 444, line |-> "no untagged ethernet", port |-> 3]],
                      [call |-> "flow_mod",
                       mod |-> [command |-> "OFPFC_ADD", match |-> 3, idle_timeout |-> 0,
                                hard_timeout |-> 0, priority |-> 1, actions |-> <<1>>]] >>
            /\ req[r].op = "delete" =>
                 /\ Calls(r) =
                      << [call |-> "send",
                          cmd |-> [vlan |-> 444, line |-> "untagged ethernet", port |-> 7]],
                         [call |-> "flow_mod", mod |-> [command |-> "OFPFC_DELETE", match |-> 1]],
                         [call |-> "send",
                          cmd |-> [vlan |-> 444, line |-> "untagged ethernet", port |-> 3]],
                         [call |-> "flow_mod", mod |-> [command |-> "OFPFC_DELETE", match |-> 3]] >>
                 /\ {7, 3} \subseteq vlan444
                 /\ 1 \notin DOMAIN flows
                 /\ 3 \notin DOMAIN flows

C7_Witness ==
    \E r \in Procs :
        /\ req[r].pc = "done" /\ req[r].err = "none" /\ req[r].op = "delete"
        /\ req[r].slice_members = <<"icarus1", "icarus5">>
        /\ req[r].existed
        /\ okSoFar /\ lastOp[req[r].slice_id] = "create"

\* ------------------------------------------------------------------------
\* C8: when connect() fails for the k-th member port of a create, the call
\* ends with that error, it has submitted the rules of ports 1..k-1 and no
\* other, and nothing is undone: those rules are installed and the control
\* ports of ports 1..k-1 are off the control VLAN.
\* ------------------------------------------------------------------------
C8_NoRollback ==
    \A r \in Procs :
        (req[r].op = "create" /\ OpenFailed(r)) =>
            LET P == req[r].slice_port_members
                k == req[r].k
                mods == FlowMods(r)
            IN  /\ req[r].pc = "done"
                /\ req[r].err = "SSHException"
                /\ Len(mods) = k - 1
                /\ \A j \in 1..(k - 1) :
                     /\ mods[j].mod.match = P[j]
                     /\ P[j] \in DOMAIN flows
                     /\ flows[P[j]] = Rule(SelectSeq(P, LAMBDA q : q # P[j]))
                     /\ str(P[j]) \in DOMAIN control_resource_dictionary =>
                          int(control_resource_dictionary[str(P[j])]) \notin vlan444

C8_Witness ==
    \E r \in Procs :
        /\ req[r].op = "create" /\ OpenFailed(r)
        /\ req[r].slice_members = <<"icarus1", "icarus5">>
        /\ req[r].k = 2
        /\ 1 \in DOMAIN flows /\ 7 \notin vlan444

\* ------------------------------------------------------------------------
\* C9: while every call so far has returned without error, between calls a
\* slice id is in the registry exactly when the last call on it was a
\* create.
\* ------------------------------------------------------------------------
C9_RegistryFollowsLastOp ==
    (Quiescent /\ okSoFar) =>
        \A s \in SliceIds : (s \in DOMAIN slices) <=> (lastOp[s] = "create")

C9_Witness ==
    /\ Quiescent /\ okSoFar
    /\ lastOp["s1"] = "delete" /\ lastOp["s2"] = "create"
    /\ flows # <<>>

C11_RegistryUpdatedLast ==
    \A r \in Procs :
        (req[r].pc \in {"port", "send", "settle", "flow"}) =>
            ((req[r].slice_id \in DOMAIN slices) <=> req[r].existed)

\* ------------------------------------------------------------------------
\* C11 amended: within a call the registry is updated first: from before
\* its first external call on, a create has its id registered and a delete
\* has its id removed, and the registry stays so for the rest of the call.
\* ------------------------------------------------------------------------
C11_RegistryUpdatedFirst ==
    \A r \in Procs :
        /\ req[r].op = "create" => req[r].slice_id \in DOMAIN slices
        /\ req[r].op = "delete" => req[r].slice_id \notin DOMAIN slices

C11_Witness ==
    \E r \in Procs :
        /\ req[r].op = "create" /\ ~req[r].existed
        /\ req[r].pc = "port" /\ req[r].log = <<>>
        /\ Len(req[r].slice_port_members) = 2
        /\ req[r].slice_id \in DOMAIN slices

\* ------------------------------------------------------------------------
\* C12: a create of an id that is already registered never fails by itself
\* (only when a backend call fails), keeps the id registered with the value
\* a fresh create stores, and, when it returns, has issued the commands and
\* rule submissions that the member list alone determines: per port in
\* order the remove command (if the port is control-mapped) and the rule.
\* ------------------------------------------------------------------------
RECURSIVE CreateCallsFrom(_, _)
CreateCallsFrom(ports, all) ==
    IF ports = <<>> THEN <<>>
    ELSE LET p == Head(ports)
             exclude == IF str(p) \in DOMAIN control_resource_dictionary
                        THEN <<[call |-> "send",
                                cmd |-> [vlan |-> 444, line |-> "no untagged ethernet",
                                         port |-> int(control_resource_dictionary[str(p)])]]>>
                        ELSE <<>>
         IN  exclude
             \o <<[call |-> "flow_mod",
                   mod |-> [command |-> "OFPFC_ADD", match |-> p, idle_timeout |-> 0,
                            hard_timeout |-> 0, priority |-> 1,
                            actions |-> SelectSeq(all, LAMBDA q : q # p)]]>>
             \o CreateCallsFrom(Tail(ports), all)

CreateCalls(ports) == CreateCallsFrom(ports, ports)

PortsOf(slice_members) ==
    [i \in 1..Len(slice_members) |-> host_to_port(slice_members[i])]

C12_CreateOnExistingId ==
    \A r \in Procs :
        (req[r].op = "create" /\ req[r].existed /\ AllKnown(req[r].slice_members)) =>
            /\ ~FailedByItself(r)
            /\ req[r].slice_id \in DOMAIN slices
            /\ slices[req[r].slice_id] = None
            /\ (req[r].pc = "done" /\ req[r].err = "none") =>
                  Calls(r) = CreateCalls(PortsOf(req[r].slice_members))

C12_Witness ==
    \E r \in Procs :
        /\ req[r].op = "create" /\ req[r].existed
        /\ req[r].pc = "done" /\ req[r].err = "none"
        /\ req[r].slice_members = <<"icarus5", "entry1">>
        /\ Len(Calls(r)) = 3

\* ------------------------------------------------------------------------
\* C13: the ports of entry1 and entry2 (9 and 13) have no control mapping.
\* For a member port without a mapping a call opens no session and sends no
\* command, so the control VLAN is not touched; for a member port with a
\* mapping it opens one session, sends one command block and closes the
\* session, and only then submits or removes the rule of the port.
\* ------------------------------------------------------------------------
RECURSIVE FullLog(_, _, _)
FullLog(op, ports, all) ==
    IF ports = <<>> THEN <<>>
    ELSE LET p == Head(ports)
             key == str(p)
             line == IF op = "create" THEN "no untagged ethernet" ELSE "untagged ethernet"
             session ==
                 IF key \in DOMAIN control_resource_dictionary
                 THEN << [call |-> "open", ok |-> TRUE],
                         [call |-> "send",
                          cmd |-> [vlan |-> 444, line |-> line,
                                   port |-> int(control_resource_dictionary[key])]],
                         [call |-> "close"] >>
                 ELSE <<>>
             rule ==
                 IF op = "create"
                 THEN [command |-> "OFPFC_ADD", match |-> p, idle_timeout |-> 0,
                       hard_timeout |-> 0, priority |-> 1,
                       actions |-> SelectSeq(all, LAMBDA q : q # p)]
                 ELSE [command |-> "OFPFC_DELETE", match |-> p]
         IN  session \o <<[call |-> "flow_mod", mod |-> rule]>> \o FullLog(op, Tail(ports), all)

IsPrefix(s, t) == Len(s) <= Len(t) /\ SubSeq(t, 1, Len(s)) = s

\* the log of r without a failed connect() at its end
Attempted(r) ==
    IF OpenFailed(r) THEN SubSeq(req[r].log, 1, Len(req[r].log) - 1) ELSE req[r].log

C13_OneSessionPerMappedPort ==
    /\ host_to_port("entry1") = 9 /\ str(9) \notin DOMAIN control_resource_dictionary
    /\ host_to_port("entry2") = 13 /\ str(13) \notin DOMAIN control_resource_dictionary
    /\ \A r \in Procs :
         req[r].pc # "idle" =>
            LET full == FullLog(req[r].op, req[r].slice_port_members,
                                req[r].slice_port_members)
            IN  /\ IsPrefix(Attempted(r), full)
                /\ (req[r].pc = "done" /\ req[r].err = "none") => req[r].log = full
                /\ req[r].pc \in {"port", "flow", "done"} => sessions = {}

C13_Witness ==
    \E r \in Procs :
        /\ req[r].pc = "done" /\ req[r].err = "none" /\ req[r].op = "delete"
        /\ req[r].slice_members = <<"entry1", "icarus5">>
        /\ Len(req[r].log) = 5
        /\ 7 \notin vlan444

\* ------------------------------------------------------------------------
\* C14: during a create, every control-mapped port that a submitted rule
\* names, as its match port or as an output port of its actions, is already
\* off the control VLAN.  (Fails: the rule of the first port outputs to the
\* later ports, which are still on VLAN 444.)
\* ------------------------------------------------------------------------
C14_NoWindowOnCreate ==
    \A r \in Procs :
        req[r].op = "create" =>
            \A i \in 1..Len(FlowMods(r)) :
                LET rule == FlowMods(r)[i].mod
                IN  \A p \in ({rule.match} \cup Elems(rule.actions)) \cap ControlMapped :
                        port_translate_to_brocade(p) \notin vlan444

\* ------------------------------------------------------------------------
\* C15: at every moment of a call, the commands and flow-mods issued so far
\* are an initial part of: for each member port in list order, first the
\* control-VLAN command of the port (if it is control-mapped), then the
\* flow-mod of the port.  So the command of p precedes the flow-mod of p and
\* no call for a later port precedes either.
\* ------------------------------------------------------------------------
C15_PortByPortInOrder ==
    \A r \in Procs :
        (req[r].pc # "idle" /\ AllKnown(req[r].slice_members)) =>
            LET P == PortsOf(req[r].slice_members)
                expected == IF req[r].op = "create" THEN CreateCalls(P) ELSE DeleteCalls(P)
                issued == Calls(r)
            IN  /\ Len(issued) <= Len(expected)
                /\ \A i \in 1..Len(issued) : issued[i] = expected[i]
                /\ req[r].pc = "flow" =>
                     /\ issued # <<>>
                     /\ issued[Len(issued)].call = "send"

C15_Witness ==
    \E r \in Procs :
        /\ req[r].op = "delete" /\ req[r].pc = "flow" /\ req[r].k = 2
        /\ req[r].slice_members = <<"icarus1", "icarus5">>
        /\ Len(Calls(r)) = 3

\* ------------------------------------------------------------------------
\* C16: a delete that runs right after a create of the same id and members
\* which a failed connect() ended at its k-th port, and that returns without
\* error, converges the state: every control-mapped member port is on the
\* control VLAN, no installed rule matches a member port, and the id is not
\* registered.
\* ------------------------------------------------------------------------
C16_DeleteConverges ==
    \A r \in Procs :
        (req[r].op = "delete" /\ req[r].retry > 0
            /\ req[r].pc = "done" /\ req[r].err = "none") =>
            /\ req[r].slice_id \notin DOMAIN slices
            /\ \A i \in 1..Len(req[r].slice_members) :
                 LET p == host_to_port(req[r].slice_members[i])
                 IN  /\ p \notin DOMAIN flows
                     /\ str(p) \in DOMAIN control_resource_dictionary =>
                          int(control_resource_dictionary[str(p)]) \in vlan444

C16_Witness ==
    \E r \in Procs :
        /\ req[r].op = "delete" /\ req[r].retry = 2
        /\ req[r].pc = "done" /\ req[r].err = "none"
        /\ req[r].slice_members = <<"icarus1", "icarus5">>
        /\ req[r].existed

\* ------------------------------------------------------------------------
\* C17: with two requests in flight that interleave at the settle delay, at
\* most one session to the Brocade is open at any time, the session a call
\* is about to close is the one it opened, and once no call is running
\* every opened session has been closed.  (Fails: the session handle is one
\* global that the second open overwrites.)
\* ------------------------------------------------------------------------
C17_ExclusiveSession ==
    /\ Cardinality(sessions) <= 1
    /\ \A r \in Procs : req[r].pc = "settle" => brocade = r
    /\ Quiescent => sessions = {}

\* ------------------------------------------------------------------------
\* C18: the registry change of a call precedes the resolution of the names
\* and is kept when the resolution fails: a create that ends with the
\* lookup error has its id registered, a delete that ends with the lookup
\* error has its id removed, and neither has made an external call.
\* ------------------------------------------------------------------------
C18_RegistryChangedBeforeResolve ==
    \A r \in Procs :
        (req[r].pc = "done" /\ req[r].err = "KeyError") =>
            /\ req[r].op = "create" =>
                 /\ req[r].slice_id \in DOMAIN slices
                 /\ slices[req[r].slice_id] = None
            /\ req[r].op = "delete" => req[r].slice_id \notin DOMAIN slices
            /\ req[r].log = <<>>

C18_Witness ==
    \E r \in Procs :
        /\ req[r].pc = "done" /\ req[r].err = "KeyError"
        /\ req[r].op = "delete" /\ req[r].existed
        /\ req[r].slice_members = <<"icarus1", "ghost">>
        /\ req[r].slice_id \notin DOMAIN slices
        /\ 1 \in DOMAIN flows

\* ------------------------------------------------------------------------
\* C19: a delete acts only on the member list of its own call.  It leaves
\* its id out of the registry, and no step of it changes the rule of a port
\* that is not in its list or the control-VLAN membership of a Brocade port
\* that is not the control port of a port in its list: after a create with
\* more members, the other members keep their rules and stay excluded.
\* ------------------------------------------------------------------------
ControlPortsOf(ports) ==
    {int(control_resource_dictionary[str(p)]) :
        p \in {q \in Elems(ports) : str(q) \in DOMAIN control_resource_dictionary}}

RulesOutside(table, ports) == [p \in DOMAIN table \ Elems(ports) |-> table[p]]

DeleteFrame(r) ==
    (req'[r].op = "delete" /\ req'[r].pc # "idle" /\ AllKnown(req'[r].slice_members)) =>
        LET D == PortsOf(req'[r].slice_members)
        IN  /\ RulesOutside(flows', D) = RulesOutside(flows, D)
            /\ vlan444' \ ControlPortsOf(D) = vlan444 \ ControlPortsOf(D)
            /\ req'[r].slice_id \notin DOMAIN slices'

C19_DeleteActsOnPassedMembers == [][\A r \in Procs : DeleteFrame(r)]_vars

C19_Witness ==
    \E r \in Procs :
        /\ req[r].op = "delete" /\ req[r].pc = "done" /\ req[r].err = "none"
        /\ req[r].slice_members = <<"icarus1">>
        /\ okSoFar /\ claimed[req[r].slice_id] = {1, 3}
        /\ req[r].slice_id \notin DOMAIN slices
        /\ 1 \notin DOMAIN flows /\ 7 \in vlan444
        /\ 3 \in DOMAIN flows /\ flows[3] = Rule(<<1>>) /\ 3 \notin vlan444

\* ------------------------------------------------------------------------
\* C20: overlap between registered slices is neither detected nor
\* protected.  A create whose list holds a port claimed by another slice of
\* the registry is never rejected and, unless the backend fails, submits
\* every rule of its list; a finished delete has removed the rule of each of
\* its ports and put the port back on the control VLAN, also when another
\* slice of the registry still claims that port.
\* ------------------------------------------------------------------------
ClaimedByOther(slice_id, p) ==
    \E B \in DOMAIN slices \ {slice_id} : p \in claimed[B]

C20_OverlapUnprotected ==
    \A r \in Procs :
        LET ports  == PortsOf(req[r].slice_members)
            shared == {p \in Elems(ports) : ClaimedByOther(req[r].slice_id, p)}
        IN  (req[r].pc # "idle" /\ shared # {}) =>
                /\ req[r].op = "create" =>
                       /\ ~FailedByItself(r)
                       /\ (req[r].pc = "done" /\ req[r].err = "none") =>
                              Calls(r) = CreateCalls(ports)
                /\ (req[r].op = "delete" /\ req[r].pc = "done" /\ req[r].err = "none") =>
                       \A p \in shared :
                           /\ p \notin DOMAIN flows
                           /\ ControlPortsOf(<<p>>) \subseteq vlan444

C20_Witness ==
    \E r \in Procs :
        /\ req[r].op = "delete" /\ req[r].pc = "done" /\ req[r].err = "none"
        /\ req[r].slice_id = "s1" /\ req[r].slice_members = <<"icarus1", "icarus5">>
        /\ okSoFar /\ claimed["s1"] = {1, 3} /\ claimed["s2"] = {1, 9}
        /\ "s2" \in DOMAIN slices
        /\ 1 \notin DOMAIN flows /\ 7 \in vlan444
        /\ 9 \in DOMAIN flows

====
